---- MODULE Spec2Model ----
(***************************************************************************)
(* A model of nanana's core: canonical k-mer featurization (lib/kmer.py),  *)
(* the clustering pipeline (lib/cluster_pipeline.py) and the cluster-level *)
(* taxonomy vote (lib/hydrate.py).                                         *)
(*                                                                         *)
(* A Python str is a sequence of one-character strings; a numpy vector is  *)
(* a function from 0-based indices; a pandas frame is a sequence of rows.  *)
(***************************************************************************)
EXTENDS Integers, Sequences, FiniteSets, TLC

\* ------------------------------------------------------------------ bounds
MaxK == 3
MaxSeqLen == 4
MaxHashOrder == 2
MaxReads == 2
MaxRows == 3
MaxSampleSize == 3
MaxPoints == 2

\* ------------------------------------------------------- program constants
\* width of one count cell: np.zeros(array_size, np.uint16)
UINT16_MOD == 65536

\* ---------------------------------------------------------------- lib/kmer
base_for == <<"A", "C", "G", "T">>
base_rev == <<"T", "G", "C", "A">>

\* the symbols a read may hold: the four bases and the ambiguity code N
Alphabet == {"A", "C", "G", "T", "N"}

\* code point of a symbol, the order Python compares str by
Ord(c) ==
  CASE c = "A" -> 65 [] c = "C" -> 67 [] c = "G" -> 71
    [] c = "N" -> 78 [] c = "T" -> 84

\* str.maketrans(base_for, base_rev): symbols outside base_for map to themselves
comp_tab(c) ==
  IF \E j \in 1..Len(base_for) : base_for[j] = c
    THEN base_rev[CHOOSE j \in 1..Len(base_for) : base_for[j] = c]
    ELSE c

\* kmer_for.translate(comp_tab)[::-1]
kmer_rev_of(kmer_for) ==
  [j \in 1..Len(kmer_for) |-> comp_tab(kmer_for[Len(kmer_for) + 1 - j])]

\* Python's a < b on str: lexicographic by code point, a proper prefix first
RECURSIVE StrLess(_, _)
StrLess(a, b) ==
  IF a = <<>> THEN b # <<>>
  ELSE IF b = <<>> THEN FALSE
  ELSE IF Ord(a[1]) # Ord(b[1]) THEN Ord(a[1]) < Ord(b[1])
  ELSE StrLess(Tail(a), Tail(b))

\* a plausible slip: the forward k-mer is kept, the strands are not merged
CanonicalKmer_forward_only(kmer_for) == kmer_for

\* if kmer_for < kmer_rev: kmer = kmer_for else: kmer = kmer_rev
CanonicalKmer(kmer_for) ==
  LET kmer_rev == kmer_rev_of(kmer_for)
  IN IF StrLess(kmer_for, kmer_rev) THEN kmer_for ELSE kmer_rev

\* product("ACGT", repeat=k_size), each tuple joined into a str
Oligomers(k_size) == [1..k_size -> {base_for[j] : j \in 1..Len(base_for)}]

\* list(combined): a set is listed in an order the hash seed decides, not in
\* str order. The listings modelled: the elements by their reversed text,
\* rotated by order, and backwards when order is odd
HashLess(a, b) ==
  StrLess([j \in 1..Len(a) |-> a[Len(a) + 1 - j]],
          [j \in 1..Len(b) |-> b[Len(b) + 1 - j]])

ListOfSet(S, order) ==
  LET n == Cardinality(S)
      base == [r \in 1..n |->
                 CHOOSE x \in S :
                   Cardinality({y \in S : HashLess(y, x)}) = r - 1]
      rot == [j \in 1..n |-> base[((j - 1 + order) % n) + 1]]
  IN IF order % 2 = 0 THEN rot ELSE [j \in 1..n |-> rot[n + 1 - j]]

\* list.sort(): ascending by str comparison, equal elements in their order
ListSort(lst) ==
  LET n == Len(lst)
      before(i) == {j \in 1..n : \/ StrLess(lst[j], lst[i])
                                 \/ (lst[j] = lst[i] /\ j < i)}
      rank == [i \in 1..n |-> Cardinality(before(i)) + 1]
  IN [r \in 1..n |-> lst[CHOOSE i \in 1..n : rank[i] = r]]

make_kmer_list(k_size, order) ==
  LET combined == {CanonicalKmer(kmer_for) : kmer_for \in Oligomers(k_size)}
  IN ListSort(ListOfSet(combined, order))

\* hsh_fn[kmer] = i for i, kmer in enumerate(...): 0-based positions
HashOf(kmer_list) ==
  [kmer \in {kmer_list[j] : j \in 1..Len(kmer_list)} |->
     (CHOOSE j \in 1..Len(kmer_list) : kmer_list[j] = kmer) - 1]

\* np.zeros(array_size, np.uint16)
ZeroCounts(array_size) == [j \in 0..(array_size - 1) |-> 0]

\* a plausible slip: the last window is left out (range(seq_size - k_size))
WindowCount_short(seq_size, k_size) == seq_size - k_size

\* range(seq_size - k_size + 1)
WindowCount(seq_size, k_size) == seq_size - k_size + 1

\* one turn of the window loop of count_kmer, at window i; the cell is a
\* np.uint16 and += 1 wraps at its width
CountWindow(hh, hsh_fn, ksz, sq, i) ==
  LET kmer == CanonicalKmer(SubSeq(sq, i + 1, i + ksz))
  IN IF kmer \in DOMAIN hsh_fn
       THEN [hh EXCEPT ![hsh_fn[kmer]] = (@ + 1) % UINT16_MOD]
       ELSE hh

\* the turns lo .. hi - 1 of the loop, one after the other: the first half
\* of the range, then the second on its result (the test of the vector's
\* shape always holds; with it TLC finishes the first half before the second)
RECURSIVE CountLoop(_, _, _, _, _, _)
CountLoop(hh, hsh_fn, ksz, sq, lo, hi) ==
  IF hi <= lo THEN hh
  ELSE IF hi = lo + 1 THEN CountWindow(hh, hsh_fn, ksz, sq, lo)
  ELSE LET mid == (lo + hi) \div 2
           first == CountLoop(hh, hsh_fn, ksz, sq, lo, mid)
       IN IF DOMAIN first = DOMAIN hh
            THEN CountLoop(first, hsh_fn, ksz, sq, mid, hi)
            ELSE first

count_kmer(hh, hsh_fn, ksz, sq) ==
  IF Len(sq) < ksz THEN hh
  ELSE CountLoop(hh, hsh_fn, ksz, sq, 0, WindowCount(Len(sq), ksz))

\* ----------------------------------------------------------------- state
VARIABLES
  \* lib/kmer.py, one record at a time
  kpc,         \* "idle", "init", "vocab", "record", "counted"
  k_size,      \* the k-mer size
  kmers,       \* the vocabulary of the latest make_kmer_list call
  kmers_prev,  \* the vocabulary of the call before it
  builds,      \* how often make_kmer_list has run
  seq,         \* the record's sequence
  h,           \* its count vector
  \* command/cluster.py main and lib/cluster_pipeline.py cluster_fastx
  ppc,         \* "idle", "start", "counting", "features", "embedded",
               \* "clustered", "returned", "failed", "exit"
  kmer_size,   \* --kmer-size
  umap_config, \* DEFAULT_UMAP_PARAMS updated with umap_kwargs
  hdbscan_config, \* DEFAULT_HDBSCAN_PARAMS updated with hdbscan_kwargs
  fastx,       \* the records readfq has yielded, in file order
  generator,   \* "open" until readfq is exhausted, then "exhausted"
  hsh_fn,      \* k-mer -> column of the count matrix
  seq_names,   \* count_sequence_kmer's three lists
  lengths,
  counts,
  embedding,   \* reducer.fit_transform(count_matrix)
  labels,      \* clusterer.fit_predict(embedding)
  cluster_out, \* the frame cluster_fastx returns
  error,       \* the exception raised, "" when none
  output_tsv,  \* the rows written to --output, <<>> while unwritten
  exit_code,   \* main's return value, -1 while running
  umap_calls,  \* calls of fit_transform made
  hdbscan_calls, \* calls of fit_predict made
  \* lib/hydrate.py build_cluster_summary
  vpc,           \* "idle", "start", "sampled", "voted", "returned", "failed",
                 \* "hydrated"
  cluster_df,    \* rows [seq_name, hdbscan_id]
  read_taxon_df, \* read id -> one cell per taxon column; <<>> is a NaN cell
  sample_size,
  sampled_reads, \* cluster id -> the rows sampled, in the order drawn
  group_taxids,  \* cluster id -> winning taxon id
  summary_df,    \* the summary frame, one row per key of group_taxids
  v_error,       \* the exception raised, "" when none
  name_calls,    \* calls of fetch_taxon_name made
  taxid_list,    \* the ids handed to the latest of them
  annotated_reads, \* the frame hydrate_clusters returns beside the summary
  \* two runs of the cluster command and the hydrate command on one input
  rpc,          \* "idle", "features", "embedding", "clustering", "consensus",
                \* "rerun", "done"
  run_no,       \* 1 or 2
  r_seed,       \* --random-state of the hydrate command, the same in both
  r_kmer_size,  \* --kmer-size, the same in both
  r_fastx,      \* the records of the input file, the same in both
  r_counts,     \* the count matrix of the run at hand
  r_embedding,  \* its embedding
  r_cluster,    \* the cluster tables written so far, one per run
  r_taxonomy,   \* the summary tables written so far, one per run
  \* lib/plotting.py scatter_clusters
  spc,          \* "idle", "called", "checked", "factorized", "drawn",
                \* "annotated", "saved", "failed"
  s_cluster,    \* cluster_df: [columns, rows]
  s_labels,     \* labels: [given, columns, rows]; given is FALSE for None
  s_annotate,   \* annotate
  s_confidence_column, \* confidence_column, "None" for None
  ax_scatter,   \* the calls of ax.scatter: [marker, rows]
  ax_texts,     \* the calls of ax.annotate: [cluster_id, label, xy]
  png_saved,    \* whether fig.savefig has run
  s_error,      \* the exception raised, "" when none
  \* command/plot.py main
  mpc,          \* "idle", "start", "summarised", "plotting", "exit"
  m_args,       \* the tables read and the options parsed
  m_labels,     \* labels_df
  summary_tsv,  \* the rows written to --cluster-summary, <<>> while unwritten
  m_error,      \* the failure logged, "" when none
  m_exit        \* main's return value, -1 while running

kvars == <<kpc, k_size, kmers, kmers_prev, builds, seq, h>>
pvars == <<ppc, kmer_size, umap_config, hdbscan_config, fastx, generator, hsh_fn, seq_names, lengths,
           counts, embedding, labels, cluster_out, error, output_tsv,
           exit_code, umap_calls, hdbscan_calls>>
vvars == <<vpc, cluster_df, read_taxon_df, sample_size, sampled_reads,
           group_taxids, summary_df, v_error, name_calls, taxid_list,
           annotated_reads>>
rvars == <<rpc, run_no, r_seed, r_kmer_size, r_fastx, r_counts, r_embedding,
           r_cluster, r_taxonomy>>
svars == <<spc, s_cluster, s_labels, s_annotate, s_confidence_column,
           ax_scatter, ax_texts, png_saved, s_error>>
mvars == <<mpc, m_args, m_labels, summary_tsv, m_error, m_exit>>
xvars == <<rvars, svars, mvars>>
vars == <<kvars, pvars, vvars, xvars>>

\* a component that takes no part in the run at hand
KIdle ==
  /\ kpc = "idle" /\ k_size = 0 /\ kmers = <<>> /\ kmers_prev = <<>>
  /\ builds = 0 /\ seq = <<>> /\ h = <<>>

PIdle ==
  /\ ppc = "idle" /\ kmer_size = 0 /\ umap_config = <<>>
  /\ hdbscan_config = <<>> /\ fastx = <<>> /\ generator = "open"
  /\ hsh_fn = <<>> /\ seq_names = <<>> /\ lengths = <<>> /\ counts = <<>>
  /\ embedding = <<>> /\ labels = <<>> /\ cluster_out = <<>> /\ error = ""
  /\ output_tsv = <<>> /\ exit_code = -1
  /\ umap_calls = 0 /\ hdbscan_calls = 0

VIdle ==
  /\ vpc = "idle" /\ cluster_df = <<>> /\ read_taxon_df = <<>>
  /\ sample_size = 0 /\ sampled_reads = <<>> /\ group_taxids = <<>>
  /\ summary_df = <<>> /\ v_error = "" /\ name_calls = 0
  /\ taxid_list = <<>> /\ annotated_reads = <<>>

RIdle ==
  /\ rpc = "idle" /\ run_no = 0 /\ r_seed = 0 /\ r_kmer_size = 0
  /\ r_fastx = <<>> /\ r_counts = <<>> /\ r_embedding = <<>>
  /\ r_cluster = <<>> /\ r_taxonomy = <<>>

SIdle ==
  /\ spc = "idle" /\ s_cluster = <<>> /\ s_labels = <<>>
  /\ s_annotate = FALSE /\ s_confidence_column = "None"
  /\ ax_scatter = <<>> /\ ax_texts = <<>> /\ png_saved = FALSE
  /\ s_error = ""

MIdle ==
  /\ mpc = "idle" /\ m_args = <<>> /\ m_labels = <<>>
  /\ summary_tsv = <<>> /\ m_error = "" /\ m_exit = -1

XIdle == RIdle /\ SIdle /\ MIdle

\* ------------------------------------------------ featurizer on one record
RECURSIVE SeqsUpTo(_)
SeqsUpTo(n) ==
  IF n = 0 THEN {<<>>} ELSE SeqsUpTo(n - 1) \cup [1..n -> Alphabet]

\* a read long enough to give one k-mer as many windows as a count cell has
\* values: a run of A
LongReads(k) == {[i \in 1..(UINT16_MOD + k - 1) |-> "A"]}

KInit ==
  /\ kpc = "init"
  /\ k_size \in 1..MaxK
  /\ kmers = <<>>
  /\ kmers_prev = <<>>
  /\ builds = 0
  /\ seq = <<>>
  /\ h = <<>>
  /\ PIdle
  /\ VIdle
  /\ XIdle

\* make_kmer_list(k_size), called once and then once more
MakeKmerList ==
  /\ kpc \in {"init", "vocab"}
  /\ builds < 2
  /\ \E order \in 0..MaxHashOrder :
       kmers' = make_kmer_list(k_size, order)
  /\ kmers_prev' = kmers
  /\ builds' = builds + 1
  /\ kpc' = "vocab"
  /\ UNCHANGED <<k_size, seq, h, pvars, vvars, xvars>>

\* for record in generator: init_np = np.zeros(array_size, np.uint16)
NextRecord ==
  /\ kpc = "vocab"
  /\ builds = 2
  /\ \E s \in SeqsUpTo(MaxSeqLen) \cup LongReads(k_size) : seq' = s
  /\ h' = ZeroCounts(Len(kmers))
  /\ kpc' = "record"
  /\ UNCHANGED <<k_size, kmers, kmers_prev, builds, pvars, vvars, xvars>>

\* count_kmer(init_np, hsh_fn, k_size, seq)
CountKmer ==
  /\ kpc = "record"
  /\ h' = count_kmer(h, HashOf(kmers), k_size, seq)
  /\ kpc' = "counted"
  /\ UNCHANGED <<k_size, kmers, kmers_prev, builds, seq, pvars, vvars, xvars>>

KNext == MakeKmerList \/ NextRecord \/ CountKmer

SpecKmer == KInit /\ [][KNext]_vars

\* ------------------------------------------------- the clustering command
\* the (name, seq, qual) records readfq may yield; names repeat
RecordPool ==
  {[name |-> n, seq |-> s] :
     n \in {"r1", "r2"},
     s \in {<<>>, <<"A", "C">>, <<"G", "N", "T">>}}

\* one row of reducer.fit_transform's result; one label of fit_predict
EmbeddingRows == {<<0, 0>>, <<1, 2>>}
ClusterLabels == {-1, 0}

\* DEFAULT_UMAP_PARAMS and DEFAULT_HDBSCAN_PARAMS; min_dist and
\* cluster_selection_epsilon are floats, held in tenths (0.1 and 0.5)
DEFAULT_UMAP_PARAMS == [n_neighbors |-> 15, min_dist |-> 1, n_components |-> 2]
DEFAULT_HDBSCAN_PARAMS ==
  [min_cluster_size |-> 40, cluster_selection_epsilon |-> 5]

\* what argparse hands to main and main to cluster_fastx: the defaults with
\* every k-mer size, or one option given as -1 (type=int and type=float
\* accept it)
Configs ==
  LET base(k) == [kmer_size |-> k, umap |-> DEFAULT_UMAP_PARAMS,
                  hdbscan |-> DEFAULT_HDBSCAN_PARAMS]
  IN {base(k) : k \in 1..MaxK}
     \cup {base(-1),
           [base(1) EXCEPT !.umap.n_neighbors = -1],
           [base(1) EXCEPT !.umap.min_dist = -1],
           [base(1) EXCEPT !.hdbscan.min_cluster_size = -1],
           [base(1) EXCEPT !.hdbscan.cluster_selection_epsilon = -1]}

\* the exception fit_transform ends with when it fails: UMAP's own check of
\* its parameters, else a failure of the computation
UmapFailure(config) ==
  IF config.n_neighbors < 2
    THEN {"ValueError: n_neighbors must be greater than 1"}
  ELSE IF config.min_dist < 0
    THEN {"ValueError: min_dist cannot be negative"}
  ELSE {"MemoryError"}

\* the same of fit_predict
HdbscanFailure(config) ==
  IF config.min_cluster_size < 2
    THEN {"ValueError: Min cluster size must be an integer greater than one"}
  ELSE IF config.cluster_selection_epsilon < 0
    THEN {"ValueError: Epsilon must be a float value greater than or equal to 0!"}
  ELSE {"MemoryError"}

\* whether the library accepts the parameters it was built with
UmapAccepts(config) == config.n_neighbors >= 2 /\ config.min_dist >= 0
HdbscanAccepts(config) ==
  config.min_cluster_size >= 2 /\ config.cluster_selection_epsilon >= 0

\* a plausible slip: the newest record is put first
ListAppend_front(lst, x) == <<x>> \o lst

\* list.append(x)
ListAppend(lst, x) == Append(lst, x)

\* pd.concat([metadata, coordinates], axis=1): the rows of equal index side
\* by side; both frames carry the default index 0..N-1
ConcatAxis1(metadata, coordinates) ==
  [i \in (DOMAIN metadata) \cap (DOMAIN coordinates) |->
     [seq_name |-> metadata[i].seq_name,
      length |-> metadata[i].length,
      hdbscan_id |-> metadata[i].hdbscan_id,
      D1 |-> coordinates[i][1],
      D2 |-> coordinates[i][2]]]

PInit ==
  /\ ppc = "start"
  /\ \E c \in Configs :
       /\ kmer_size = c.kmer_size
       /\ umap_config = c.umap
       /\ hdbscan_config = c.hdbscan
  /\ fastx = <<>>
  /\ generator = "open"
  /\ hsh_fn = <<>>
  /\ seq_names = <<>>
  /\ lengths = <<>>
  /\ counts = <<>>
  /\ embedding = <<>>
  /\ labels = <<>>
  /\ cluster_out = <<>>
  /\ error = ""
  /\ output_tsv = <<>>
  /\ exit_code = -1
  /\ umap_calls = 0
  /\ hdbscan_calls = 0
  /\ KIdle
  /\ VIdle
  /\ XIdle

\* cluster_fastx up to the call of count_sequence_kmer, and the latter up to
\* its loop; product("ACGT", repeat=k_size) raises on a negative k_size
StartCounting ==
  /\ ppc = "start"
  /\ IF kmer_size < 0
       THEN /\ hsh_fn' = hsh_fn
            /\ error' = "ValueError: repeat argument cannot be negative"
            /\ ppc' = "failed"
       ELSE /\ \E order \in 0..MaxHashOrder :
                 hsh_fn' = HashOf(make_kmer_list(kmer_size, order))
            /\ error' = error
            /\ ppc' = "counting"
  /\ UNCHANGED <<kmer_size, umap_config, hdbscan_config, fastx, generator, seq_names, lengths, counts,
                 embedding, labels, cluster_out, output_tsv,
                 exit_code, umap_calls,
                 hdbscan_calls, kvars, vvars, xvars>>

\* one turn of "for record in generator": readfq yields the next record
CountRecord ==
  /\ ppc = "counting"
  /\ generator = "open"
  /\ Len(fastx) < MaxReads
  /\ \E record \in RecordPool :
       LET init_np == count_kmer(ZeroCounts(Cardinality(DOMAIN hsh_fn)),
                                 hsh_fn, kmer_size, record.seq)
       IN /\ fastx' = Append(fastx, record)
          /\ seq_names' = ListAppend(seq_names, record.name)
          /\ lengths' = ListAppend(lengths, Len(record.seq))
          /\ counts' = ListAppend(counts, init_np)
  /\ UNCHANGED <<ppc, kmer_size, umap_config, hdbscan_config, generator, hsh_fn, embedding, labels,
                 cluster_out, error, output_tsv, exit_code, umap_calls,
                 hdbscan_calls, kvars, vvars, xvars>>

\* readfq is exhausted: np.vstack(counts) raises on an empty list;
\* back in cluster_fastx, num_sequences == 0 raises "No sequences were read"
FinishCounting ==
  /\ ppc = "counting"
  /\ generator = "open"
  /\ generator' = "exhausted"
  /\ IF counts = <<>>
       THEN /\ error' = "ValueError: need at least one array to concatenate"
            /\ ppc' = "failed"
       ELSE IF Len(seq_names) = 0
         THEN /\ error' = "ValueError: No sequences were read"
              /\ ppc' = "failed"
         ELSE /\ error' = error
              /\ ppc' = "features"
  /\ UNCHANGED <<kmer_size, umap_config, hdbscan_config, fastx, hsh_fn, seq_names, lengths,
                 counts, embedding, labels, cluster_out, output_tsv,
                 exit_code, umap_calls,
                 hdbscan_calls, kvars, vvars, xvars>>

\* a plausible slip: a failed embedding is asked for once more
UmapFitTransform_retry ==
  /\ ppc = "features"
  /\ umap_calls' = umap_calls + 1
  /\ \/ /\ UmapAccepts(umap_config)
        /\ \E emb \in [1..Len(counts) -> EmbeddingRows] : embedding' = emb
        /\ ppc' = "embedded"
        /\ error' = error
     \/ /\ embedding' = embedding
        /\ ppc' = IF umap_calls = 0 THEN "features" ELSE "failed"
        /\ \E exc \in UmapFailure(umap_config) :
             error' = IF umap_calls = 0 THEN error ELSE exc
  /\ UNCHANGED <<kmer_size, umap_config, hdbscan_config, fastx, generator, hsh_fn, seq_names, lengths,
                 counts, labels, cluster_out, output_tsv, exit_code, hdbscan_calls,
                 kvars, vvars, xvars>>

\* a plausible slip: the embedding is asked for as soon as a record has been
\* counted, while readfq may still yield records
UmapFitTransform_early ==
  /\ ppc \in {"counting", "features"}
  /\ counts # <<>>
  /\ umap_calls' = umap_calls + 1
  /\ \/ /\ UmapAccepts(umap_config)
        /\ \E emb \in [1..Len(counts) -> EmbeddingRows] : embedding' = emb
        /\ ppc' = "embedded"
        /\ error' = error
     \/ /\ embedding' = embedding
        /\ ppc' = "failed"
        /\ \E exc \in UmapFailure(umap_config) : error' = exc
  /\ UNCHANGED <<kmer_size, umap_config, hdbscan_config, fastx, generator, hsh_fn, seq_names, lengths,
                 counts, labels, cluster_out, output_tsv, exit_code, hdbscan_calls,
                 kvars, vvars, xvars>>

\* umap.UMAP(**umap_config).fit_transform(count_matrix): one row per row of
\* the matrix, or an exception of the library, which cluster_fastx lets
\* through as it is
UmapFitTransform ==
  /\ ppc = "features"
  /\ umap_calls' = umap_calls + 1
  /\ \/ /\ UmapAccepts(umap_config)
        /\ \E emb \in [1..Len(counts) -> EmbeddingRows] : embedding' = emb
        /\ ppc' = "embedded"
        /\ error' = error
     \/ /\ embedding' = embedding
        /\ ppc' = "failed"
        /\ \E exc \in UmapFailure(umap_config) : error' = exc
  /\ UNCHANGED <<kmer_size, umap_config, hdbscan_config, fastx, generator, hsh_fn, seq_names, lengths,
                 counts, labels, cluster_out, output_tsv, exit_code, hdbscan_calls,
                 kvars, vvars, xvars>>

\* hdbscan.HDBSCAN(**hdbscan_config).fit_predict(embedding), or an exception
\* of the library, let through as it is
HdbscanFitPredict ==
  /\ ppc = "embedded"
  /\ hdbscan_calls' = hdbscan_calls + 1
  /\ \/ /\ HdbscanAccepts(hdbscan_config)
        /\ \E lab \in [1..Len(embedding) -> ClusterLabels] : labels' = lab
        /\ ppc' = "clustered"
        /\ error' = error
     \/ /\ labels' = labels
        /\ ppc' = "failed"
        /\ \E exc \in HdbscanFailure(hdbscan_config) : error' = exc
  /\ UNCHANGED <<kmer_size, umap_config, hdbscan_config, fastx, generator, hsh_fn, seq_names, lengths,
                 counts, embedding, cluster_out, output_tsv, exit_code,
                 umap_calls,
                 kvars, vvars, xvars>>

\* metadata, coordinates and their concatenation
AssembleTable ==
  /\ ppc = "clustered"
  /\ LET metadata == [i \in 1..Len(seq_names) |->
                        [seq_name |-> seq_names[i],
                         length |-> lengths[i],
                         hdbscan_id |-> labels[i]]]
     IN cluster_out' = ConcatAxis1(metadata, embedding)
  /\ ppc' = "returned"
  /\ UNCHANGED <<kmer_size, umap_config, hdbscan_config, fastx, generator, hsh_fn, seq_names, lengths,
                 counts, embedding, labels, error, output_tsv, exit_code,
                 umap_calls,
                 hdbscan_calls, kvars, vvars, xvars>>

\* main: cluster_df.to_csv(output_path, ...); return 0
WriteTable ==
  /\ ppc = "returned"
  /\ output_tsv' = cluster_out
  /\ exit_code' = 0
  /\ ppc' = "exit"
  /\ UNCHANGED <<kmer_size, umap_config, hdbscan_config, fastx, generator, hsh_fn, seq_names, lengths,
                 counts, embedding, labels, cluster_out, error, umap_calls,
                 hdbscan_calls, kvars, vvars, xvars>>

\* main: except Exception: logger.error(...); return 1
ReportFailure ==
  /\ ppc = "failed"
  /\ exit_code' = 1
  /\ ppc' = "exit"
  /\ UNCHANGED <<kmer_size, umap_config, hdbscan_config, fastx, generator, hsh_fn, seq_names, lengths,
                 counts, embedding, labels, cluster_out, error, output_tsv,
                 umap_calls,
                 hdbscan_calls, kvars, vvars, xvars>>

Next ==
  \/ StartCounting
  \/ CountRecord
  \/ FinishCounting
  \/ UmapFitTransform
  \/ HdbscanFitPredict
  \/ AssembleTable
  \/ WriteTable
  \/ ReportFailure

Spec == PInit /\ [][Next]_vars

\* ------------------------------------------------ the cluster-level vote
\* the read ids of the cluster table, row by row
ReadNames == <<"r1", "r2", "r3", "r4", "r5">>

\* the labels fit_predict gives: noise and two clusters
VoteLabels == {-1, 0, 1}

\* the taxon columns of the score matrix, in column order
TaxonColumns == <<"T1", "T2">>

\* the rows a read may have in the score matrix; <<>> is a missing cell
ScoreRows == {<< <<>>, <<>> >>, << <<1>>, <<>> >>, << <<2>>, <<3>> >>}

\* what `taxonkit lineage --show-name` knows: T1 has a name, T2 has none
NoName == "<NA>"
TaxonName(taxid) == IF taxid = "T1" THEN "Alpha" ELSE NoName

IsNaN(cell) == cell = <<>>

\* target = 1 if len(group) < sample_size else sample_size
SampleTarget(group_len, size) == IF group_len < size THEN 1 ELSE size

\* the rows of one group of cluster_df.groupby("hdbscan_id")
GroupRows(df, cluster_id) ==
  {i \in 1..Len(df) : df[i].hdbscan_id = cluster_id}

GroupKeys(df) == {df[i].hdbscan_id : i \in 1..Len(df)}

\* group.sample(n=target): target distinct rows of the group, in any order
SamplesOf(rows, target) ==
  {s \in [1..target -> rows] : \A i, j \in 1..target : s[i] = s[j] => i = j}

\* groupby(...).apply(sampler): one sample for every group
RECURSIVE SampleChoices(_, _, _)
SampleChoices(df, keys, size) ==
  IF keys = {} THEN {<<>>}
  ELSE LET c == CHOOSE x \in keys : TRUE
       IN {(c :> s) @@ f :
             s \in SamplesOf(GroupRows(df, c),
                             SampleTarget(Cardinality(GroupRows(df, c)), size)),
             f \in SampleChoices(df, keys \ {c}, size)}

\* read_taxon_df.reindex(read_ids): a row of NaN for an id the index lacks
Reindex(df, read_ids) ==
  [i \in 1..Len(read_ids) |->
     IF read_ids[i] \in DOMAIN df
       THEN df[read_ids[i]]
       ELSE [j \in 1..Len(TaxonColumns) |-> <<>>]]

\* .dropna(how="all"): rows whose cells are all NaN go
RECURSIVE DropnaAll(_)
DropnaAll(rows) ==
  IF rows = <<>> THEN <<>>
  ELSE IF \A j \in 1..Len(rows[1]) : IsNaN(rows[1][j])
    THEN DropnaAll(Tail(rows))
    ELSE <<rows[1]>> \o DropnaAll(Tail(rows))

\* a plausible slip: the column keeps its last usable cell, nothing is added
RECURSIVE ColumnSum_last(_, _)
ColumnSum_last(rows, j) ==
  IF rows = <<>> THEN 0
  ELSE IF IsNaN(rows[Len(rows)][j])
    THEN ColumnSum_last(SubSeq(rows, 1, Len(rows) - 1), j)
    ELSE rows[Len(rows)][j][1]

\* .sum(axis=0) of one column: NaN cells are skipped
RECURSIVE ColumnSum(_, _)
ColumnSum(rows, j) ==
  IF rows = <<>> THEN 0
  ELSE (IF IsNaN(rows[1][j]) THEN 0 ELSE rows[1][j][1])
       + ColumnSum(Tail(rows), j)

\* a plausible slip: of equal maxima the last column wins
IdxMax_last(sums) ==
  LET best == CHOOSE j \in DOMAIN sums :
                /\ \A i \in DOMAIN sums : sums[i] <= sums[j]
                /\ \A i \in DOMAIN sums : i > j => sums[i] < sums[j]
  IN TaxonColumns[best]

\* .idxmax(): the label of the first column that holds the maximum
IdxMax(sums) ==
  LET best == CHOOSE j \in DOMAIN sums :
                /\ \A i \in DOMAIN sums : sums[i] <= sums[j]
                /\ \A i \in DOMAIN sums : i < j => sums[i] < sums[j]
  IN TaxonColumns[best]

\* group["seq_name"].values of the rows sampled
ReadIds(df, sample) == [i \in 1..Len(sample) |-> df[sample[i]].seq_name]

\* dist_slice of one cluster
DistSlice(matrix, read_ids) == DropnaAll(Reindex(matrix, read_ids))

\* dist_slice.sum(axis=0).idxmax()
TopTaxid(dist_slice) ==
  IdxMax([j \in 1..Len(TaxonColumns) |-> ColumnSum(dist_slice, j)])

\* a plausible slip: a cluster without usable rows is not skipped
VotingClusters_all(df, matrix, sampled) == DOMAIN sampled

\* the clusters the loop does not `continue` past
VotingClusters(df, matrix, sampled) ==
  {c \in DOMAIN sampled : DistSlice(matrix, ReadIds(df, sampled[c])) # <<>>}

\* group_taxids after the loop
GroupTaxids(df, matrix, sampled) ==
  [c \in VotingClusters(df, matrix, sampled) |->
     TopTaxid(DistSlice(matrix, ReadIds(df, sampled[c])))]

\* a plausible slip: the check of an empty result is missing
NoWinner_unchecked(taxids) == FALSE

\* if not group_taxids
NoWinner(taxids) == DOMAIN taxids = {}

\* .sort_index(): the keys ascending
RECURSIVE SortedKeys(_)
SortedKeys(keys) ==
  IF keys = {} THEN <<>>
  ELSE LET lo == CHOOSE x \in keys : \A y \in keys : x <= y
       IN <<lo>> \o SortedKeys(keys \ {lo})

\* the summary frame before the name column is added
SummaryFrame(taxids) ==
  LET ids == SortedKeys(DOMAIN taxids)
  IN [i \in 1..Len(ids) |-> [hdbscan_id |-> ids[i], TaxID |-> taxids[ids[i]]]]

\* a plausible slip: the names are merged in, and a row whose id the lookup
\* does not resolve is lost
WithNames_resolved(frame) ==
  LET named == SelectSeq(frame, LAMBDA row : TaxonName(row.TaxID) # NoName)
  IN [i \in 1..Len(named) |->
        [hdbscan_id |-> named[i].hdbscan_id,
         TaxID |-> named[i].TaxID,
         name |-> TaxonName(named[i].TaxID)]]

\* summary_df["name"] = summary_df["TaxID"].map(id_to_name)
WithNames(frame) ==
  [i \in 1..Len(frame) |->
     [hdbscan_id |-> frame[i].hdbscan_id,
      TaxID |-> frame[i].TaxID,
      name |-> TaxonName(frame[i].TaxID)]]

\* a cell of the merged frame that no summary row fills (NaN)
NoTaxID == "<NA>"

\* the columns of summary_df.reset_index() beside the key
SummaryColumns == {"TaxID", "name"}

\* one row of the merged frame: the columns of the left row and those of
\* the right one; a column both have, the key apart, is kept twice, under
\* the suffixes _x (left) and _y (right)
MergedRow(row, hit) ==
  LET shared == DOMAIN row \cap SummaryColumns
      cols == (DOMAIN row \ shared) \cup (SummaryColumns \ shared)
              \cup {c \o "_x" : c \in shared} \cup {c \o "_y" : c \in shared}
  IN [c \in cols |->
        IF c \in DOMAIN row \ shared THEN row[c]
        ELSE IF c \in SummaryColumns \ shared THEN hit[c]
        ELSE IF \E s \in shared : c = s \o "_x"
          THEN row[CHOOSE s \in shared : c = s \o "_x"]
        ELSE hit[CHOOSE s \in shared : c = s \o "_y"]]

\* DataFrame.merge(right, on="hdbscan_id", how="left"): the rows of left in
\* their order, each once for every row of right with its key, and once
\* with empty cells when right has none
RECURSIVE MergeLeft(_, _)
MergeLeft(left, right) ==
  IF left = <<>> THEN <<>>
  ELSE LET row == left[1]
           hits == SelectSeq(right, LAMBDA r : r.hdbscan_id = row.hdbscan_id)
           joined ==
             IF hits = <<>>
               THEN << MergedRow(row, [TaxID |-> NoTaxID, name |-> NoName]) >>
               ELSE [j \in 1..Len(hits) |-> MergedRow(row, hits[j])]
       IN joined \o MergeLeft(Tail(left), right)

RECURSIVE ClusterTablesUpTo(_)
ClusterTablesUpTo(n) ==
  IF n = 0 THEN {<<>>}
  ELSE ClusterTablesUpTo(n - 1) \cup
       {[i \in 1..n |-> [seq_name |-> ReadNames[i], hdbscan_id |-> lab[i]]] :
          lab \in [1..n -> VoteLabels]}

\* score matrices over the reads of the table, a read with or without a row
ScoreMatrices(df) ==
  UNION {[idx -> ScoreRows] :
           idx \in SUBSET {df[i].seq_name : i \in 1..Len(df)}}

\* cluster tables that carry the optional name column
NamedTables ==
  {[i \in 1..n |-> [seq_name |-> ReadNames[i], hdbscan_id |-> lab[i],
                    name |-> "Beta"]] :
     n \in 1..2, lab \in {<<0, 0>>, <<0, 1>>}}

\* cluster tables with a required column lacking
BareTables == {<<[hdbscan_id |-> 0]>>, <<[seq_name |-> ReadNames[1]]>>}

\* required_columns.difference(cluster_df.columns); a table without rows
\* still has its header
MissingColumns(df) ==
  IF df = <<>> THEN {} ELSE {"hdbscan_id", "seq_name"} \ DOMAIN df[1]

VInit ==
  /\ vpc = "start"
  /\ cluster_df \in ClusterTablesUpTo(MaxRows) \cup NamedTables
                    \cup BareTables
  /\ read_taxon_df \in IF MissingColumns(cluster_df) = {}
                          THEN ScoreMatrices(cluster_df)
                          ELSE [{ReadNames[1]} -> ScoreRows]
  /\ sample_size \in 1..MaxSampleSize
  /\ sampled_reads = <<>>
  /\ group_taxids = <<>>
  /\ summary_df = <<>>
  /\ v_error = ""
  /\ name_calls = 0
  /\ taxid_list = <<>>
  /\ annotated_reads = <<>>
  /\ KIdle
  /\ PIdle
  /\ XIdle

\* the check of the columns, the groupby/apply of the sampler, and the
\* check of an empty result
SampleReads ==
  /\ vpc = "start"
  /\ IF MissingColumns(cluster_df) # {}
       THEN /\ sampled_reads' = sampled_reads
            /\ v_error' = "ValueError: Cluster table is missing required columns"
            /\ vpc' = "failed"
       ELSE /\ \E f \in SampleChoices(cluster_df, GroupKeys(cluster_df),
                                      sample_size) :
                 sampled_reads' = f
            /\ IF Len(cluster_df) = 0
                 THEN /\ v_error' = "ValueError: No reads available to assign taxonomy."
                      /\ vpc' = "failed"
                 ELSE /\ v_error' = v_error
                      /\ vpc' = "sampled"
  /\ UNCHANGED <<cluster_df, read_taxon_df, sample_size, group_taxids,
                 summary_df, name_calls, taxid_list, annotated_reads,
                 kvars, pvars, xvars>>

\* the loop over the sampled groups, the check of group_taxids and the
\* summary frame
VoteClusters ==
  /\ vpc = "sampled"
  /\ group_taxids' = GroupTaxids(cluster_df, read_taxon_df, sampled_reads)
  /\ IF NoWinner(group_taxids')
       THEN /\ v_error' = "ValueError: Unable to assign taxonomy to any cluster with provided distances."
            /\ vpc' = "failed"
            /\ summary_df' = summary_df
       ELSE /\ v_error' = v_error
            /\ vpc' = "voted"
            /\ summary_df' = SummaryFrame(group_taxids')
  /\ UNCHANGED <<cluster_df, read_taxon_df, sample_size, sampled_reads,
                 name_calls, taxid_list, annotated_reads, kvars, pvars, xvars>>

\* fetch_taxon_name(ids=taxid_list) and the name column; taxonkit may fail
ResolveNames ==
  /\ vpc = "voted"
  /\ name_calls' = name_calls + 1
  /\ taxid_list' = [i \in 1..Len(summary_df) |-> summary_df[i].TaxID]
  /\ \/ /\ summary_df' = WithNames(summary_df)
        /\ vpc' = "returned"
        /\ v_error' = v_error
     \/ /\ summary_df' = summary_df
        /\ vpc' = "failed"
        /\ v_error' = "RuntimeError: taxonkit failed"
  /\ UNCHANGED <<cluster_df, read_taxon_df, sample_size, sampled_reads,
                 group_taxids, annotated_reads, kvars, pvars, xvars>>

\* hydrate_clusters after build_cluster_summary has returned:
\* cluster_df.merge(summary_df.reset_index(), on="hdbscan_id", how="left")
MergeSummary ==
  /\ vpc = "returned"
  /\ annotated_reads' = MergeLeft(cluster_df, summary_df)
  /\ vpc' = "hydrated"
  /\ UNCHANGED <<cluster_df, read_taxon_df, sample_size, sampled_reads,
                 group_taxids, summary_df, v_error, name_calls, taxid_list,
                 kvars, pvars, xvars>>

VNext == SampleReads \/ VoteClusters \/ ResolveNames \/ MergeSummary

SpecVote == VInit /\ [][VNext]_vars

\* ------------------------------- the pipeline run twice on the same input
\* the components that take no part in the two runs
others_r == <<kvars, pvars, vvars, svars, mvars>>

\* --sample-size of the hydrate command, left at its default
DEFAULT_SAMPLE_SIZE == 5

\* the values --random-state and --kmer-size are given
Seeds == {0, 1}
RerunKmerSizes == {1, 2}

\* the input files: up to MaxReads records with names of their own
RerunInputs ==
  UNION {[1..n -> {<<"A", "C">>, <<"G", "N", "T">>, <<>>}] : n \in 1..MaxReads}

\* the score matrix handed to the hydrate command: a row for every read, no
\* empty cell (fillna(0) leaves it as it is)
RerunScores(names) ==
  [id \in {names[i] : i \in 1..Len(names)} |->
     IF id \in {"r1", "r3"} THEN << <<2>>, <<3>> >> ELSE << <<1>>, <<0>> >>]

\* fit_predict is a function of the embedding it is given: here the points
\* that coincide with another point form cluster 0, the others are noise
HdbscanLabels(emb) ==
  [i \in 1..Len(emb) |->
     IF \E j \in 1..Len(emb) : j # i /\ emb[j] = emb[i] THEN 0 ELSE -1]

\* group.sample(n=target, random_state=seed) with an integer seed: the rows
\* drawn are a function of the group's length, target and the seed
SeededSample(rows, target, seed) ==
  LET n == Cardinality(rows)
      sorted == SortedKeys(rows)
  IN [i \in 1..target |-> sorted[((seed + i - 1) % n) + 1]]

\* groupby(...).apply(sampler) with the seed given
SeededSamples(df, size, seed) ==
  [c \in GroupKeys(df) |->
     SeededSample(GroupRows(df, c),
                  SampleTarget(Cardinality(GroupRows(df, c)), size), seed)]

RInit ==
  /\ rpc = "features"
  /\ run_no = 1
  /\ r_seed \in Seeds
  /\ r_kmer_size \in RerunKmerSizes
  /\ \E s \in RerunInputs :
       r_fastx = [i \in 1..Len(s) |-> [name |-> ReadNames[i], seq |-> s[i]]]
  /\ r_counts = <<>>
  /\ r_embedding = <<>>
  /\ r_cluster = <<>>
  /\ r_taxonomy = <<>>
  /\ KIdle
  /\ PIdle
  /\ VIdle
  /\ SIdle
  /\ MIdle

\* count_sequence_kmer: the vocabulary, listed from a set in the order of the
\* run's hash seed and sorted, and one count vector per record
RFeaturize ==
  /\ rpc = "features"
  /\ \E order \in 0..MaxHashOrder :
       LET hf == HashOf(make_kmer_list(r_kmer_size, order))
       IN r_counts' =
            [i \in 1..Len(r_fastx) |->
               count_kmer(ZeroCounts(Cardinality(DOMAIN hf)), hf,
                          r_kmer_size, r_fastx[i].seq)]
  /\ rpc' = "embedding"
  /\ UNCHANGED <<run_no, r_seed, r_kmer_size, r_fastx, r_embedding,
                 r_cluster, r_taxonomy, others_r>>

\* umap.UMAP(**umap_config).fit_transform: umap_config holds no
\* random_state, the layout comes from a generator seeded anew in every run
REmbed ==
  /\ rpc = "embedding"
  /\ \E emb \in [1..Len(r_counts) -> EmbeddingRows] : r_embedding' = emb
  /\ rpc' = "clustering"
  /\ UNCHANGED <<run_no, r_seed, r_kmer_size, r_fastx, r_counts,
                 r_cluster, r_taxonomy, others_r>>

\* fit_predict, the table cluster_fastx returns and main's to_csv
RCluster ==
  /\ rpc = "clustering"
  /\ LET lab == HdbscanLabels(r_embedding)
         metadata == [i \in 1..Len(r_fastx) |->
                        [seq_name |-> r_fastx[i].name,
                         length |-> Len(r_fastx[i].seq),
                         hdbscan_id |-> lab[i]]]
     IN r_cluster' = Append(r_cluster, ConcatAxis1(metadata, r_embedding))
  /\ rpc' = "consensus"
  /\ UNCHANGED <<run_no, r_seed, r_kmer_size, r_fastx, r_counts,
                 r_embedding, r_taxonomy, others_r>>

\* the hydrate command on the table just written, with --random-state
RConsensus ==
  /\ rpc = "consensus"
  /\ LET df == r_cluster[run_no]
         matrix == RerunScores([i \in 1..Len(df) |-> df[i].seq_name])
         sampled == SeededSamples(df, DEFAULT_SAMPLE_SIZE, r_seed)
         taxids == GroupTaxids(df, matrix, sampled)
     IN r_taxonomy' =
          Append(r_taxonomy,
                 IF NoWinner(taxids) THEN <<>>
                 ELSE WithNames(SummaryFrame(taxids)))
  /\ rpc' = IF run_no = 1 THEN "rerun" ELSE "done"
  /\ UNCHANGED <<run_no, r_seed, r_kmer_size, r_fastx, r_counts,
                 r_embedding, r_cluster, others_r>>

\* the second run starts from the same file, with nothing kept of the first
RRerun ==
  /\ rpc = "rerun"
  /\ run_no' = 2
  /\ r_counts' = <<>>
  /\ r_embedding' = <<>>
  /\ rpc' = "features"
  /\ UNCHANGED <<r_seed, r_kmer_size, r_fastx, r_cluster, r_taxonomy,
                 others_r>>

RNext == RFeaturize \/ REmbed \/ RCluster \/ RConsensus \/ RRerun

SpecRerun == RInit /\ [][RNext]_vars

\* ------------------------------------------------------ scatter_clusters
\* the components that take no part in a call of scatter_clusters
others_s == <<kvars, pvars, vvars, rvars, mvars>>

\* the defaults of scatter_clusters' parameters, and the threshold handed in
label_column == "name"
low_confidence_marker == "x"
high_confidence_marker == "o"
confidence_threshold == 1

\* a cell of the confidence column: a number, NaN, text that is no number
\* ("low"), or text that reads as the number val ("1")
Num(v) == [kind |-> "num", val |-> v]
NaNCell == [kind |-> "nan", val |-> 0]
Word == [kind |-> "word", val |-> 0]
Digits(v) == [kind |-> "digits", val |-> v]

\* pd.to_numeric(cell, errors="coerce")
ToNumeric(cell) ==
  IF cell.kind = "num" THEN cell
  ELSE IF cell.kind = "digits" THEN Num(cell.val)
  ELSE NaNCell

\* a plausible slip: a score equal to the threshold counts as high
LowMask_strict(cell, threshold) ==
  ToNumeric(cell).kind = "num" /\ ToNumeric(cell).val < threshold

\* (confidence <= confidence_threshold).fillna(False) for one row: a
\* comparison with NaN is False
LowMask(cell, threshold) ==
  ToNumeric(cell).kind = "num" /\ ToNumeric(cell).val <= threshold

required_columns == {"D1", "D2", "hdbscan_id"}
AllColumns == {"seq_name", "hdbscan_id", "D1", "D2", "confidence", "name"}

\* the columns cols of a row
Restrict(row, cols) == [c \in cols |-> row[c]]

\* what a row of the cluster table may hold beside its name and coordinates
PointPicks ==
  {[hdbscan_id |-> c, confidence |-> q[1], name |-> q[2]] :
     c \in {0, 1},
     q \in {<<Num(0), NoName>>, <<Num(1), "Alpha">>, <<Num(2), "Beta">>,
            <<NaNCell, "Alpha">>, <<Word, NoName>>, <<Digits(1), "Beta">>}}

\* a frame with the columns cols; row i has its own name and coordinates
FrameOf(cols, picks) ==
  [columns |-> cols,
   rows |-> [i \in 1..Len(picks) |->
               Restrict([seq_name |-> ReadNames[i],
                         hdbscan_id |-> picks[i].hdbscan_id,
                         D1 |-> i, D2 |-> i * i,
                         confidence |-> picks[i].confidence,
                         name |-> picks[i].name], cols)]]

\* the cluster tables handed in: with every column and up to MaxPoints
\* rows, as the cluster command writes it (no confidence, no name), and
\* with a coordinate or the cluster label lacking
ClusterFrames ==
  {FrameOf(AllColumns, picks) :
     picks \in UNION {[1..n -> PointPicks] : n \in 0..MaxPoints}}
  \cup {FrameOf(cols, <<[hdbscan_id |-> 0, confidence |-> Num(0),
                          name |-> "Alpha"]>>) :
          cols \in {AllColumns \ {"confidence", "name"},
                    AllColumns \ {"D1"},
                    AllColumns \ {"hdbscan_id"}}}

\* the label tables handed in: none, one row per cluster, a cluster without
\* a label value, a cluster with two rows, and a column lacking
NoLabels == [given |-> FALSE, columns |-> {}, rows |-> <<>>]
LabelFrameOf(cols, rows) ==
  [given |-> TRUE, columns |-> cols,
   rows |-> [i \in 1..Len(rows) |-> Restrict(rows[i], cols)]]
LabelFrames ==
  LET both == {"hdbscan_id", "name"}
      row(c, l) == [hdbscan_id |-> c, name |-> l]
  IN {NoLabels,
      LabelFrameOf(both, <<row(0, "Alpha"), row(1, "Beta")>>),
      LabelFrameOf(both, <<row(1, NoName), row(0, "Alpha")>>),
      LabelFrameOf(both, <<row(0, "Alpha"), row(0, "Beta")>>),
      LabelFrameOf({"name"}, <<row(0, "Alpha")>>),
      LabelFrameOf({"hdbscan_id"}, <<row(0, "Alpha")>>)}

\* use_confidence
UseConfidence(frame, column) ==
  column # "None" /\ column \in frame.columns

\* the calls of ax.scatter scatter_clusters makes
ScatterCalls(frame, column) ==
  LET n == Len(frame.rows)
      low(i) == LowMask(frame.rows[i].confidence, confidence_threshold)
      high(i) == ~low(i)
      every(i) == TRUE
      loc(mask(_)) == SelectSeq([i \in 1..n |-> i], mask)
      call(marker, rows) == [marker |-> marker, rows |-> rows]
  IN IF UseConfidence(frame, column)
       THEN (IF loc(low) # <<>>
               THEN <<call(low_confidence_marker, loc(low))>>
               ELSE <<>>)
            \o (IF loc(high) # <<>>
                  THEN <<call(high_confidence_marker, loc(high))>>
                  ELSE <<>>)
       ELSE <<call(high_confidence_marker, loc(every))>>

\* the exception of the annotation's checks, "" when they pass
LabelError(frame, table) ==
  IF table.given
    THEN IF "hdbscan_id" \notin table.columns
           THEN "ValueError: Label table must include 'hdbscan_id'."
         ELSE IF label_column \notin table.columns
           THEN "ValueError: Label table must include 'name'."
         ELSE ""
    ELSE IF label_column \notin frame.columns
           THEN "ValueError: Column 'name' not present; provide --labels or disable annotation."
         ELSE ""

\* cluster_df.dropna(subset=[label_column]).drop_duplicates(
\* subset=["hdbscan_id"]): of every cluster the first row with a label
FirstLabelled(rows) ==
  LET labelled(i) == rows[i].name # NoName
      first(i) ==
        /\ labelled(i)
        /\ \A j \in 1..(i - 1) :
             ~(labelled(j) /\ rows[j].hdbscan_id = rows[i].hdbscan_id)
      kept == SelectSeq([i \in 1..Len(rows) |-> i], first)
  IN [j \in 1..Len(kept) |->
        [hdbscan_id |-> rows[kept[j]].hdbscan_id, name |-> rows[kept[j]].name]]

\* label_df: the rows of the label table, or those of the cluster table
LabelDf(frame, table) ==
  IF table.given
    THEN [i \in 1..Len(table.rows) |->
            [hdbscan_id |-> table.rows[i].hdbscan_id,
             name |-> table.rows[i].name]]
    ELSE FirstLabelled(frame.rows)

\* the sum of a column over some rows of the frame
RECURSIVE ColumnTotal(_, _, _)
ColumnTotal(rows, picked, col) ==
  IF picked = {} THEN 0
  ELSE LET i == CHOOSE x \in picked : TRUE
       IN rows[i][col] + ColumnTotal(rows, picked \ {i}, col)

\* cluster_df.groupby("hdbscan_id")[["D1", "D2"]].mean(): a mean is kept as
\* the sum and the number of rows
Centers(frame) ==
  LET ids == {frame.rows[i].hdbscan_id : i \in 1..Len(frame.rows)}
      of(c) == {i \in 1..Len(frame.rows) : frame.rows[i].hdbscan_id = c}
      mean(c, col) == [num |-> ColumnTotal(frame.rows, of(c), col),
                       den |-> Cardinality(of(c))]
  IN [c \in ids |-> [D1 |-> mean(c, "D1"), D2 |-> mean(c, "D2")]]

\* centers.join(label_df, how="inner"): the centers in their order, each
\* once for every row of label_df with its cluster id
RECURSIVE JoinInner(_, _, _)
JoinInner(ids, centers, label_df) ==
  IF ids = <<>> THEN <<>>
  ELSE LET c == ids[1]
           hits == SelectSeq(label_df, LAMBDA r : r.hdbscan_id = c)
       IN [j \in 1..Len(hits) |->
             [cluster_id |-> c, label |-> hits[j].name, xy |-> centers[c]]]
          \o JoinInner(Tail(ids), centers, label_df)

\* the calls of ax.annotate: the joined rows whose label is not NaN
Annotations(frame, table) ==
  LET centers == Centers(frame)
      annotated == JoinInner(SortedKeys(DOMAIN centers), centers,
                             LabelDf(frame, table))
  IN SelectSeq(annotated, LAMBDA row : row.label # NoName)

SInit ==
  /\ spc = "called"
  /\ s_cluster \in ClusterFrames
  /\ s_labels \in LabelFrames
  /\ s_annotate \in BOOLEAN
  /\ s_confidence_column \in {"None", "confidence"}
  /\ ax_scatter = <<>>
  /\ ax_texts = <<>>
  /\ png_saved = FALSE
  /\ s_error = ""
  /\ KIdle
  /\ PIdle
  /\ VIdle
  /\ RIdle
  /\ MIdle

\* required_columns.difference(cluster_df.columns)
CheckColumns ==
  /\ spc = "called"
  /\ IF required_columns \ s_cluster.columns # {}
       THEN /\ s_error' = "ValueError: Cluster table missing required columns"
            /\ spc' = "failed"
       ELSE /\ s_error' = s_error
            /\ spc' = "checked"
  /\ UNCHANGED <<s_cluster, s_labels, s_annotate, s_confidence_column,
                 ax_scatter, ax_texts, png_saved, others_s>>

\* plt.subplots, pd.factorize and the check of unique_ids
Factorize ==
  /\ spc = "checked"
  /\ IF Len(s_cluster.rows) = 0
       THEN /\ s_error' = "ValueError: No cluster identifiers available to plot."
            /\ spc' = "failed"
       ELSE /\ s_error' = s_error
            /\ spc' = "factorized"
  /\ UNCHANGED <<s_cluster, s_labels, s_annotate, s_confidence_column,
                 ax_scatter, ax_texts, png_saved, others_s>>

\* the scatter calls, with or without confidence markers
DrawPoints ==
  /\ spc = "factorized"
  /\ ax_scatter' = ScatterCalls(s_cluster, s_confidence_column)
  /\ spc' = "drawn"
  /\ UNCHANGED <<s_cluster, s_labels, s_annotate, s_confidence_column,
                 ax_texts, png_saved, s_error, others_s>>

\* if annotate: the checks of the label source, the centers and the texts
Annotate ==
  /\ spc = "drawn"
  /\ IF ~s_annotate
       THEN /\ ax_texts' = ax_texts
            /\ s_error' = s_error
            /\ spc' = "annotated"
       ELSE IF LabelError(s_cluster, s_labels) # ""
         THEN /\ ax_texts' = ax_texts
              /\ s_error' = LabelError(s_cluster, s_labels)
              /\ spc' = "failed"
         ELSE /\ ax_texts' = Annotations(s_cluster, s_labels)
              /\ s_error' = s_error
              /\ spc' = "annotated"
  /\ UNCHANGED <<s_cluster, s_labels, s_annotate, s_confidence_column,
                 ax_scatter, png_saved, others_s>>

\* fig.savefig(output_path, dpi=dpi)
SaveFigure ==
  /\ spc = "annotated"
  /\ png_saved' = TRUE
  /\ spc' = "saved"
  /\ UNCHANGED <<s_cluster, s_labels, s_annotate, s_confidence_column,
                 ax_scatter, ax_texts, s_error, others_s>>

SNext == CheckColumns \/ Factorize \/ DrawPoints \/ Annotate \/ SaveFigure

SpecScatter == SInit /\ [][SNext]_vars

\* ---------------------------------------------------- the plot command
others_m == <<kvars, pvars, vvars, rvars>>

\* pd.read_csv(dist_path, sep="\t", index_col=0).fillna(0)
FillNa(matrix) ==
  [r \in DOMAIN matrix |->
     [j \in 1..Len(matrix[r]) |->
        IF IsNaN(matrix[r][j]) THEN <<0>> ELSE matrix[r][j]]]

\* the command lines and files of a run: a cluster table of at most one
\* row, a score matrix or none, a label table or none, and the options
PlotArgs ==
  [clusters : {f \in ClusterFrames : Len(f.rows) <= 1},
   labels : LabelFrames,
   dist_given : BOOLEAN,
   dist : [{ReadNames[1]} -> ScoreRows] \cup {<<>>},
   cluster_summary : BOOLEAN,
   annotate : {"None", "True", "False"},
   confidence_column : {"None", "score"}]

\* the exception _build_cluster_summary raises before it samples, "" when none
SummaryError(frame) ==
  IF {"hdbscan_id", "seq_name"} \ frame.columns # {}
    THEN "ValueError: Cluster table is missing required columns"
  ELSE IF Len(frame.rows) = 0
    THEN "ValueError: No reads available to assign taxonomy."
  ELSE ""

\* summary_df.reset_index() as the label table
SummaryLabels(summary) ==
  [given |-> TRUE, columns |-> {"hdbscan_id", "TaxID", "name"},
   rows |-> summary]

\* annotate, as main decides it
PlotAnnotate(args, table) ==
  IF args.annotate = "None"
    THEN table.given \/ label_column \in args.clusters.columns
    ELSE args.annotate = "True"

\* confidence_column, as main decides it
PlotConfidenceColumn(args) ==
  IF args.confidence_column = "None"
    THEN IF "confidence" \in args.clusters.columns
           THEN "confidence" ELSE "None"
    ELSE IF args.confidence_column \notin args.clusters.columns
           THEN "None" ELSE args.confidence_column

MInit ==
  /\ mpc = "start"
  /\ m_args \in PlotArgs
  /\ m_labels = m_args.labels
  /\ summary_tsv = <<>>
  /\ m_error = ""
  /\ m_exit = -1
  /\ KIdle
  /\ PIdle
  /\ VIdle
  /\ RIdle
  /\ SIdle

\* if dist_path is not None: ... elif summary_path is not None: the summary
\* is built, becomes the label table when none was given, and is written
PlotSummary ==
  /\ mpc = "start"
  /\ IF m_args.dist_given
       THEN IF SummaryError(m_args.clusters) # ""
              THEN /\ m_error' = SummaryError(m_args.clusters)
                   /\ m_exit' = 1
                   /\ mpc' = "exit"
                   /\ UNCHANGED <<m_labels, summary_tsv>>
              ELSE \E sampled \in SampleChoices(m_args.clusters.rows,
                                    GroupKeys(m_args.clusters.rows),
                                    DEFAULT_SAMPLE_SIZE) :
                     LET taxids == GroupTaxids(m_args.clusters.rows,
                                               FillNa(m_args.dist), sampled)
                         summary == WithNames(SummaryFrame(taxids))
                     IN IF NoWinner(taxids)
                          THEN /\ m_error' = "ValueError: Unable to assign taxonomy to any cluster with provided distances."
                               /\ m_exit' = 1
                               /\ mpc' = "exit"
                               /\ UNCHANGED <<m_labels, summary_tsv>>
                          ELSE \/ /\ m_labels' = IF m_labels.given
                                                    THEN m_labels
                                                    ELSE SummaryLabels(summary)
                                  /\ summary_tsv' = IF m_args.cluster_summary
                                                       THEN summary
                                                       ELSE summary_tsv
                                  /\ mpc' = "summarised"
                                  /\ UNCHANGED <<m_error, m_exit>>
                               \/ /\ m_error' = "RuntimeError: taxonkit failed"
                                  /\ m_exit' = 1
                                  /\ mpc' = "exit"
                                  /\ UNCHANGED <<m_labels, summary_tsv>>
       ELSE IF m_args.cluster_summary
              THEN /\ m_error' = "--cluster-summary requires --dist"
                   /\ m_exit' = 1
                   /\ mpc' = "exit"
                   /\ UNCHANGED <<m_labels, summary_tsv>>
              ELSE /\ mpc' = "summarised"
                   /\ UNCHANGED <<m_labels, summary_tsv, m_error, m_exit>>
  /\ UNCHANGED <<m_args, svars, others_m>>

\* the choice of annotate and confidence_column and the call
PlotCall ==
  /\ mpc = "summarised"
  /\ spc' = "called"
  /\ s_cluster' = m_args.clusters
  /\ s_labels' = m_labels
  /\ s_annotate' = PlotAnnotate(m_args, m_labels)
  /\ s_confidence_column' = PlotConfidenceColumn(m_args)
  /\ mpc' = "plotting"
  /\ UNCHANGED <<ax_scatter, ax_texts, png_saved, s_error, m_args, m_labels,
                 summary_tsv, m_error, m_exit, others_m>>

\* scatter_clusters has returned or raised: return 0, or log and return 1
PlotReturn ==
  /\ mpc = "plotting"
  /\ spc \in {"saved", "failed"}
  /\ m_exit' = IF spc = "saved" THEN 0 ELSE 1
  /\ m_error' = s_error
  /\ mpc' = "exit"
  /\ UNCHANGED <<m_args, m_labels, summary_tsv, svars, others_m>>

MNext ==
  \/ PlotSummary
  \/ PlotCall
  \/ CheckColumns
  \/ Factorize
  \/ DrawPoints
  \/ Annotate
  \/ SaveFigure
  \/ PlotReturn

SpecPlot == MInit /\ [][MNext]_vars

\* ------------------------------------------------------------ claims
\* the strand-canonical form as the specification words it: the smaller of
\* an oligomer and its reverse complement
MinOfStrands(w) ==
  LET rc == [j \in 1..Len(w) |-> comp_tab(w[Len(w) + 1 - j])]
  IN IF StrLess(rc, w) THEN rc ELSE w

\* 4^k
RECURSIVE Pow4(_)
Pow4(n) == IF n = 0 THEN 1 ELSE 4 * Pow4(n - 1)

\* the number of canonical k-mers: reverse-complement palindromes exist for
\* even k only
CanonicalCount(k) ==
  IF k % 2 = 0 THEN (Pow4(k) + Pow4(k \div 2)) \div 2 ELSE Pow4(k) \div 2

\* C1: make_kmer_list(k) is exactly the set of canonical forms of the 4^k
\* oligomers, without duplicates, strictly ascending (2 entries for k = 1,
\* 10 for k = 2), and a second build gives the identical list.
C1_VocabularyCanonicalSorted ==
  kpc = "vocab" =>
    /\ {kmers[j] : j \in 1..Len(kmers)} =
         {MinOfStrands(w) : w \in Oligomers(k_size)}
    /\ \A j \in 1..(Len(kmers) - 1) : StrLess(kmers[j], kmers[j + 1])
    /\ \A i, j \in 1..Len(kmers) : kmers[i] = kmers[j] => i = j
    /\ Len(kmers) = CanonicalCount(k_size)
    /\ (k_size = 1 => Len(kmers) = 2)
    /\ (k_size = 2 => Len(kmers) = 10)
    /\ (builds = 2 => kmers = kmers_prev)

C1_Witness ==
  /\ builds = 2
  /\ k_size = 2
  /\ Len(kmers) = 10
  /\ kmers[1] = <<"A", "A">>
  /\ kmers[10] = <<"T", "A">>

\* the windows of seq, 0-based, and what the claim says of them
Windows(sq, k) == {i \in 0..(Len(sq) - k) : TRUE}
WindowAt(sq, k, i) == SubSeq(sq, i + 1, i + k)
IsACGT(w) == \A j \in 1..Len(w) : w[j] \in {"A", "C", "G", "T"}

RECURSIVE SumCounts(_, _)
SumCounts(f, n) == IF n = 0 THEN 0 ELSE f[n - 1] + SumCounts(f, n - 1)

\* C2: cell i of the count vector is the number of windows made of A, C, G,
\* T only whose canonical form is vocabulary[i]; a window with another
\* symbol is counted nowhere, so the total is max(0, len - k + 1) minus the
\* windows holding such a symbol, and all cells are 0 when len < k.
C2_CountsPerWindow ==
  kpc = "counted" =>
    LET n == Len(seq)
        bad == {i \in Windows(seq, k_size) : ~IsACGT(WindowAt(seq, k_size, i))}
        all == IF n - k_size + 1 > 0 THEN n - k_size + 1 ELSE 0
    IN /\ DOMAIN h = 0..(Len(kmers) - 1)
       /\ \A idx \in 0..(Len(kmers) - 1) :
            h[idx] = Cardinality(
              {i \in Windows(seq, k_size) :
                 /\ IsACGT(WindowAt(seq, k_size, i))
                 /\ MinOfStrands(WindowAt(seq, k_size, i)) = kmers[idx + 1]})
       /\ SumCounts(h, Len(kmers)) = all - Cardinality(bad)
       /\ (n < k_size => \A idx \in DOMAIN h : h[idx] = 0)

\* C3: row i of the table cluster_fastx returns carries the name and the
\* length of the i-th record of the input, is joined with the embedding row
\* and the label computed for the i-th count vector, and the i-th count
\* vector is that of the i-th record; repeated names merge or drop nothing.
C3_RowsInInputOrder ==
  (ppc = "returned" \/ (ppc = "exit" /\ exit_code = 0)) =>
    /\ Len(cluster_out) = Len(fastx)
    /\ Len(counts) = Len(fastx)
    /\ \A i \in 1..Len(fastx) :
         /\ cluster_out[i].seq_name = fastx[i].name
         /\ cluster_out[i].length = Len(fastx[i].seq)
         /\ counts[i] = count_kmer(ZeroCounts(Cardinality(DOMAIN hsh_fn)),
                                   hsh_fn, kmer_size, fastx[i].seq)
         /\ cluster_out[i].D1 = embedding[i][1]
         /\ cluster_out[i].D2 = embedding[i][2]
         /\ cluster_out[i].hdbscan_id = labels[i]
    /\ (ppc = "exit" => output_tsv = cluster_out)

C3_Witness ==
  /\ ppc = "exit"
  /\ exit_code = 0
  /\ Len(fastx) = 2
  /\ fastx[1].name = fastx[2].name
  /\ fastx[1].seq = <<"G", "N", "T">>
  /\ fastx[2].seq = <<"A", "C">>
  /\ embedding[1] # embedding[2]
  /\ labels[1] # labels[2]
  /\ Len(output_tsv) = 2

\* C4: a run on an input of zero records fails with "No sequences were
\* read", raised before the embedding is asked for, and with nothing else.
C4_EmptyInputError ==
  (generator = "exhausted" /\ Len(fastx) = 0) =>
    /\ ppc \notin {"features", "embedded", "clustered", "returned"}
    /\ umap_calls = 0
    /\ (ppc \in {"failed", "exit"} =>
          error = "ValueError: No sequences were read")

\* what the claims about the vote speak of
Finished == vpc \in {"returned", "failed"}
Members(c) == {i \in 1..Len(cluster_df) : cluster_df[i].hdbscan_id = c}
SampledIds(c) ==
  [i \in 1..Len(sampled_reads[c]) |-> cluster_df[sampled_reads[c][i]].seq_name]
InMatrix(id) == id \in DOMAIN read_taxon_df
Usable(id) ==
  /\ InMatrix(id)
  /\ \E j \in 1..Len(TaxonColumns) : read_taxon_df[id][j] # <<>>
Score(id, j) ==
  IF InMatrix(id) /\ read_taxon_df[id][j] # <<>>
    THEN read_taxon_df[id][j][1] ELSE 0

\* the sum of column j over the ids at the first n places of ids
RECURSIVE ScoreSum(_, _, _)
ScoreSum(ids, n, j) ==
  IF n = 0 THEN 0 ELSE Score(ids[n], j) + ScoreSum(ids, n - 1, j)

ColumnOf(taxid) == CHOOSE j \in 1..Len(TaxonColumns) : TaxonColumns[j] = taxid
SummaryIds == {summary_df[i].hdbscan_id : i \in 1..Len(summary_df)}
Unassignable ==
  "ValueError: Unable to assign taxonomy to any cluster with provided distances."

\* C5: of a cluster with m members min(sample_size, m) reads are sampled,
\* all of them members of the cluster and no row twice.
C5_SampleSizeIsMin ==
  vpc \in {"sampled", "voted", "returned"} =>
    \A c \in DOMAIN sampled_reads :
      LET m == Cardinality(Members(c))
          n == Len(sampled_reads[c])
      IN /\ n = (IF sample_size < m THEN sample_size ELSE m)
         /\ \A i \in 1..n : sampled_reads[c][i] \in Members(c)
         /\ \A i, j \in 1..n :
              sampled_reads[c][i] = sampled_reads[c][j] => i = j

\* C6: the summary build_cluster_summary returns has no row for the noise
\* label -1.
C6_NoiseExcluded ==
  vpc = "returned" => -1 \notin SummaryIds

\* C7: the winner of a cluster is the column with the largest sum over the
\* sampled reads that are rows of the matrix, and of several columns with
\* that sum the first in column order.
C7_WinnerIsFirstMaxColumn ==
  vpc \in {"voted", "returned"} =>
    \A c \in DOMAIN group_taxids :
      LET ids == SampledIds(c)
          w == ColumnOf(group_taxids[c])
      IN /\ group_taxids[c] \in {TaxonColumns[j] : j \in 1..Len(TaxonColumns)}
         /\ \A j \in 1..Len(TaxonColumns) :
              ScoreSum(ids, Len(ids), j) <= ScoreSum(ids, Len(ids), w)
         /\ \A j \in 1..(w - 1) :
              ScoreSum(ids, Len(ids), j) < ScoreSum(ids, Len(ids), w)

C7_Witness ==
  /\ vpc = "returned"
  /\ \E c \in DOMAIN group_taxids :
       /\ group_taxids[c] = "T1"
       /\ ScoreSum(SampledIds(c), Len(SampledIds(c)), 1) =
            ScoreSum(SampledIds(c), Len(SampledIds(c)), 2)
  /\ \E c \in DOMAIN group_taxids :
       /\ group_taxids[c] = "T2"
       /\ Len(SampledIds(c)) = 1

\* the ids of a sample that are rows of the matrix, in the order sampled
RECURSIVE PresentIds(_)
PresentIds(ids) ==
  IF ids = <<>> THEN <<>>
  ELSE IF InMatrix(ids[1]) THEN <<ids[1]>> \o PresentIds(Tail(ids))
  ELSE PresentIds(Tail(ids))

\* C8: a sampled id that is no row of the matrix adds nothing to the vote;
\* a cluster whose sampled ids are all absent has no winner and no summary
\* row, and does not keep the clusters with a usable read from theirs.
C8_AbsentIdsSkipped ==
  vpc \in {"voted", "returned"} =>
    /\ \A c \in DOMAIN sampled_reads :
         /\ (\A i \in 1..Len(SampledIds(c)) : ~InMatrix(SampledIds(c)[i]))
              => (c \notin DOMAIN group_taxids /\ c \notin SummaryIds)
         /\ (\E i \in 1..Len(SampledIds(c)) : Usable(SampledIds(c)[i]))
              => (c \in DOMAIN group_taxids /\ c \in SummaryIds)
    /\ \A c \in DOMAIN group_taxids :
         LET present == PresentIds(SampledIds(c))
             w == ColumnOf(group_taxids[c])
         IN /\ present # <<>>
            /\ \A j \in 1..Len(TaxonColumns) :
                 ScoreSum(present, Len(present), j)
                   <= ScoreSum(present, Len(present), w)

C8_Witness ==
  /\ vpc = "returned"
  /\ \E c \in DOMAIN sampled_reads :
       /\ \A i \in 1..Len(SampledIds(c)) : ~InMatrix(SampledIds(c)[i])
       /\ c \notin SummaryIds
  /\ \E c \in DOMAIN sampled_reads :
       /\ \E i \in 1..Len(SampledIds(c)) : ~InMatrix(SampledIds(c)[i])
       /\ \E i \in 1..Len(SampledIds(c)) : Usable(SampledIds(c)[i])
       /\ c \in SummaryIds

\* C9 as claimed, for a cluster table with its required columns and with
\* rows, and a name lookup that answers: the call fails with Unassignable when no cluster has a sampled
\* read that is a row of the matrix, and returns a summary holding every
\* cluster that has one otherwise.
C9_UnassignableIffNoRowPresent ==
  (Finished /\ Len(cluster_df) > 0 /\ MissingColumns(cluster_df) = {}
     /\ v_error # "RuntimeError: taxonkit failed") =>
    LET has == {c \in DOMAIN sampled_reads :
                  \E i \in 1..Len(SampledIds(c)) : InMatrix(SampledIds(c)[i])}
    IN /\ (has # {} => (vpc = "returned" /\ has \subseteq SummaryIds))
       /\ (has = {} => (vpc = "failed" /\ v_error = Unassignable))

\* C9 as amended: for a cluster table with its required columns and with
\* rows, Unassignable is raised
\* exactly when no cluster has a sampled read with a usable (non-missing)
\* cell in the matrix; otherwise the summary returned holds exactly the
\* clusters that have one, unless the name lookup failed; an empty summary
\* is never returned.
C9_UnassignableIffNoWinner ==
  (Finished /\ Len(cluster_df) > 0 /\ MissingColumns(cluster_df) = {}) =>
    LET won == {c \in DOMAIN sampled_reads :
                  \E i \in 1..Len(SampledIds(c)) : Usable(SampledIds(c)[i])}
    IN /\ (v_error = Unassignable <=> won = {})
       /\ (vpc = "returned" => (SummaryIds = won /\ won # {}))
       /\ (won # {} =>
             (vpc = "returned" \/ v_error = "RuntimeError: taxonkit failed"))

C9_Witness ==
  /\ vpc = "failed"
  /\ v_error = Unassignable
  /\ \E c \in DOMAIN sampled_reads :
       \E i \in 1..Len(SampledIds(c)) :
         InMatrix(SampledIds(c)[i]) /\ ~Usable(SampledIds(c)[i])

\* the orders a sample of n reads may be drawn in
Orders(n) == {p \in [1..n -> 1..n] : \A i, j \in 1..n : p[i] = p[j] => i = j}
Reordered(sample, p) == [i \in 1..Len(sample) |-> sample[p[i]]]
WinnerOf(sample) ==
  TopTaxid(DistSlice(read_taxon_df, ReadIds(cluster_df, sample)))

\* the winner of every cluster is the same in whatever order its sample is
\* drawn, and its column holds the largest sum over the sample
WinnerOrderFree ==
  \A c \in DOMAIN group_taxids :
    /\ \A p \in Orders(Len(sampled_reads[c])) :
         WinnerOf(Reordered(sampled_reads[c], p)) = group_taxids[c]
    /\ \A j \in 1..Len(TaxonColumns) :
         ScoreSum(SampledIds(c), Len(SampledIds(c)), j) <=
           ScoreSum(SampledIds(c), Len(SampledIds(c)),
                    ColumnOf(group_taxids[c]))

FeaturizationErrors ==
  {"ValueError: repeat argument cannot be negative",
   "ValueError: need at least one array to concatenate",
   "ValueError: No sequences were read"}
TableWritten == output_tsv # <<>>

\* C13: a failure of featurization, of the embedding or of the clustering
\* aborts the run: each capability is invoked at most once, none after a
\* failure, and the table is not written; the table is written only after
\* featurization, one embedding and one clustering have completed.
C13_FailureAbortsRun ==
  /\ umap_calls <= 1
  /\ hdbscan_calls <= 1
  /\ (error # "" =>
        /\ ppc \in {"failed", "exit"}
        /\ ~TableWritten
        /\ cluster_out = <<>>
        /\ exit_code \in {-1, 1}
        /\ (error \in FeaturizationErrors =>
              umap_calls = 0 /\ hdbscan_calls = 0)
        /\ (embedding = <<>> => hdbscan_calls = 0))
  /\ (ppc = "exit" /\ error # "" => exit_code = 1)
  /\ (TableWritten =>
        /\ error = ""
        /\ generator = "exhausted"
        /\ umap_calls = 1
        /\ hdbscan_calls = 1
        /\ Len(embedding) = Len(fastx)
        /\ Len(labels) = Len(fastx)
        /\ output_tsv = cluster_out)

C13_Witness ==
  /\ ppc = "exit"
  /\ exit_code = 1
  /\ error = "MemoryError"
  /\ Len(fastx) = 2
  /\ umap_calls = 1
  /\ hdbscan_calls = 1
  /\ Len(embedding) = 2
  /\ labels = <<>>
  /\ ~TableWritten

\* the exceptions each capability may end with, over all configurations
UmapFailures == UNION {UmapFailure(c.umap) : c \in Configs}
HdbscanFailures == UNION {HdbscanFailure(c.hdbscan) : c \in Configs}
EmbeddingFailed ==
  /\ ppc \in {"failed", "exit"} /\ umap_calls = 1 /\ embedding = <<>>
  /\ error # ""
ClusteringFailed ==
  /\ ppc \in {"failed", "exit"} /\ hdbscan_calls = 1 /\ labels = <<>>
  /\ error # ""

\* C14: the error of a failed embedding is none that a failed clustering
\* reports, and the other way round: the error names its stage.
C14_ErrorNamesStage ==
  /\ (EmbeddingFailed => error \notin HdbscanFailures)
  /\ (ClusteringFailed => error \notin UmapFailures)

NegativeConfig ==
  \/ kmer_size < 0
  \/ umap_config.n_neighbors < 0
  \/ umap_config.min_dist < 0
  \/ hdbscan_config.min_cluster_size < 0
  \/ hdbscan_config.cluster_selection_epsilon < 0

\* C16: a run with a negative configuration value is rejected before
\* featurization starts: no record is read, no capability is invoked, and
\* the run ends with exit code 1.
C16_NegativeConfigRejected ==
  (ppc # "idle" /\ NegativeConfig) =>
    /\ ppc \in {"start", "failed", "exit"}
    /\ generator = "open"
    /\ fastx = <<>>
    /\ umap_calls = 0
    /\ hdbscan_calls = 0
    /\ (ppc = "exit" => exit_code = 1)

\* C20: the count stored for a vocabulary entry does not wrap: when every
\* window of the sequence is that entry, n windows give the count n, for
\* n >= 65536 too.
C20_CountNeverWraps ==
  kpc = "counted" =>
    \A idx \in 0..(Len(kmers) - 1) :
      (\A i \in Windows(seq, k_size) :
         MinOfStrands(WindowAt(seq, k_size, i)) = kmers[idx + 1])
        => h[idx] = Cardinality(Windows(seq, k_size))

\* the column holding the largest usable score of a read's own row, the
\* first of several
OwnBest(id) ==
  CHOOSE j \in 1..Len(TaxonColumns) :
    /\ read_taxon_df[id][j] # <<>>
    /\ \A i \in 1..Len(TaxonColumns) : Score(id, i) <= Score(id, j)
    /\ \A i \in 1..(j - 1) :
         read_taxon_df[id][i] = <<>> \/ Score(id, i) < Score(id, j)
RowsOf(id) ==
  {i \in 1..Len(annotated_reads) : annotated_reads[i].seq_name = id}

\* C11: in the per-read table every read with a usable cell has one row that
\* carries the column of its own largest score as TaxID and that score as
\* confidence, and a read without a usable cell has no row.
C11_PerReadAssignment ==
  vpc = "hydrated" =>
    \A r \in 1..Len(cluster_df) :
      LET id == cluster_df[r].seq_name
      IN IF Usable(id)
           THEN /\ Cardinality(RowsOf(id)) = 1
                /\ \A i \in RowsOf(id) :
                     /\ annotated_reads[i].TaxID = TaxonColumns[OwnBest(id)]
                     /\ "confidence" \in DOMAIN annotated_reads[i]
                     /\ annotated_reads[i].confidence = Score(id, OwnBest(id))
           ELSE RowsOf(id) = {}

\* C12: two runs of the pipeline on the same input with the same seed write
\* the same cluster table and the same taxonomy table.
C12_SameSeedSameTables ==
  rpc = "done" =>
    /\ r_cluster[1] = r_cluster[2]
    /\ r_taxonomy[1] = r_taxonomy[2]

\* the positions (call, place) at which row i of the cluster table is drawn
DrawnAt(i) ==
  {pos \in UNION {{<<c, j>> : j \in 1..Len(ax_scatter[c].rows)} :
                    c \in 1..Len(ax_scatter)} :
     ax_scatter[pos[1]].rows[pos[2]] = i}

\* a confidence that is a usable number at most the threshold
UsableLow(cell) ==
  \/ cell.kind = "num" /\ cell.val <= confidence_threshold
  \/ cell.kind = "digits" /\ cell.val <= confidence_threshold

\* C17: a cluster table lacking D1, D2 or hdbscan_id, or a supplied label
\* table lacking hdbscan_id or the label column, makes scatter_clusters fail
\* before any point is drawn: no scatter call is ever made on such input.
C17_SchemaErrorBeforeDrawing ==
  (\/ required_columns \ s_cluster.columns # {}
   \/ /\ s_annotate
      /\ s_labels.given
      /\ {"hdbscan_id", label_column} \ s_labels.columns # {})
  => ax_scatter = <<>>

\* C18: with confidence markers in use, every row of the cluster table is
\* drawn exactly once, with the low-confidence marker when its confidence is
\* a usable number <= threshold and with the high-confidence marker
\* otherwise (above the threshold, missing, or not a number).
C18_MarkerPartition ==
  (UseConfidence(s_cluster, s_confidence_column) /\ ax_scatter # <<>>)
  => \A i \in 1..Len(s_cluster.rows) :
       /\ Cardinality(DrawnAt(i)) = 1
       /\ \A pos \in DrawnAt(i) :
            ax_scatter[pos[1]].marker =
              IF UsableLow(s_cluster.rows[i].confidence)
                THEN low_confidence_marker
                ELSE high_confidence_marker

C18_Witness ==
  /\ spc = "saved"
  /\ s_confidence_column = "confidence"
  /\ Len(s_cluster.rows) = 2
  /\ s_cluster.rows[1].confidence = Num(confidence_threshold)
  /\ s_cluster.rows[2].confidence = Word
  /\ ax_scatter = <<[marker |-> low_confidence_marker, rows |-> <<1>>],
                    [marker |-> high_confidence_marker, rows |-> <<2>>]>>

\* the label values the label source holds for cluster c
LabelValues(c) ==
  IF s_labels.given
    THEN {s_labels.rows[i].name :
            i \in {j \in 1..Len(s_labels.rows) :
                     s_labels.rows[j].hdbscan_id = c}} \ {NoName}
    ELSE {s_cluster.rows[i].name :
            i \in {j \in 1..Len(s_cluster.rows) :
                     s_cluster.rows[j].hdbscan_id = c}} \ {NoName}

\* C19: with annotation enabled, once the labels are placed every cluster of
\* the cluster table with a non-missing label value carries exactly one
\* text, at the mean (D1, D2) of its rows, and a cluster without a label
\* value carries none, whichever the source of the labels.
C19_OneLabelPerCluster ==
  (s_annotate /\ spc \in {"annotated", "saved"})
  => \A c \in DOMAIN Centers(s_cluster) :
       LET texts == {j \in 1..Len(ax_texts) : ax_texts[j].cluster_id = c}
       IN /\ Cardinality(texts) = (IF LabelValues(c) = {} THEN 0 ELSE 1)
          /\ \A j \in texts : ax_texts[j].xy = Centers(s_cluster)[c]

\* C15: a run of the plot command that ends in failure leaves no
\* cluster-summary table behind.
C15_NoTableAfterFailure ==
  (mpc = "exit" /\ m_exit # 0) => summary_tsv = <<>>

\* whether the score matrix of the run holds evidence for cluster c: a read
\* of the cluster has a row with a cell that is not missing
HasEvidence(c) ==
  \E i \in 1..Len(m_args.clusters.rows) :
    /\ m_args.clusters.rows[i].hdbscan_id = c
    /\ m_args.clusters.rows[i].seq_name \in DOMAIN m_args.dist
    /\ \E j \in 1..Len(TaxonColumns) :
         ~IsNaN(m_args.dist[m_args.clusters.rows[i].seq_name][j])

\* C21: on the plot command path a missing cell is no evidence: a cluster
\* whose reads have only missing cells in the score matrix gets no winner,
\* so every row of the summary written belongs to a cluster with evidence.
C21_MissingIsNoEvidence ==
  \A j \in 1..Len(summary_tsv) : HasEvidence(summary_tsv[j].hdbscan_id)

\* C22: in every run of cluster_fastx the embedding is invoked only after
\* readfq is exhausted and every record counted, the clustering only after
\* the embedding has returned one row per record, the table is assembled
\* only after the clustering has returned, neither capability is invoked
\* twice, and a successful run has invoked each exactly once.
C22_StagesInOrder ==
  /\ umap_calls <= 1
  /\ hdbscan_calls <= 1
  /\ umap_calls > 0 =>
       /\ generator = "exhausted"
       /\ Len(counts) = Len(fastx)
       /\ Len(fastx) > 0
  /\ hdbscan_calls > 0 =>
       /\ umap_calls = 1
       /\ Len(embedding) = Len(counts)
  /\ cluster_out # <<>> =>
       /\ hdbscan_calls = 1
       /\ Len(labels) = Len(embedding)
  /\ ppc = "returned" \/ exit_code = 0 =>
       /\ umap_calls = 1
       /\ hdbscan_calls = 1
       /\ Len(cluster_out) = Len(fastx)

C22_Witness ==
  /\ ppc = "exit"
  /\ exit_code = 0
  /\ Len(fastx) = 2
  /\ generator = "exhausted"
  /\ umap_calls = 1
  /\ hdbscan_calls = 1
  /\ Len(output_tsv) = 2

\* the winners of all clusters, in the order of the sorted summary
AllWinners ==
  LET ids == SortedKeys(DOMAIN group_taxids)
  IN [i \in 1..Len(ids) |-> group_taxids[ids[i]]]

\* C23: fetch_taxon_name is invoked at most once, and exactly once in a call
\* that returns; when it is invoked the winners of all clusters are
\* determined and all of them are in the one request; it is not invoked in
\* a call that fails with the schema error or with Unassignable; and every
\* winner keeps its summary row, with an absent name when the lookup does
\* not resolve its id.
C23_NamesResolvedOnce ==
  /\ name_calls <= 1
  /\ name_calls = 1 =>
       /\ group_taxids =
            GroupTaxids(cluster_df, read_taxon_df, sampled_reads)
       /\ taxid_list = AllWinners
       /\ taxid_list # <<>>
  /\ vpc \in {"returned", "hydrated"} =>
       /\ name_calls = 1
       /\ Len(summary_df) = Len(taxid_list)
       /\ \A i \in 1..Len(summary_df) :
            /\ summary_df[i].TaxID = taxid_list[i]
            /\ summary_df[i].name = TaxonName(taxid_list[i])
  /\ v_error \in {"ValueError: Cluster table is missing required columns",
                  "ValueError: No reads available to assign taxonomy.",
                  "ValueError: Unable to assign taxonomy to any cluster with provided distances."}
       => name_calls = 0

C23_Witness ==
  /\ vpc = "returned"
  /\ name_calls = 1
  /\ Len(taxid_list) = 2
  /\ \E i \in 1..Len(summary_df) : summary_df[i].name = NoName
  /\ \E i \in 1..Len(summary_df) : summary_df[i].name # NoName

\* C24: the count vector of a sequence is that of its reverse complement
\* (a symbol outside A, C, G, T is left as it is, and the whole reversed).
C24_StrandInvariant ==
  kpc = "counted" =>
    h = count_kmer(ZeroCounts(Len(kmers)), HashOf(kmers), k_size,
                   kmer_rev_of(seq))

C24_Witness ==
  /\ kpc = "counted"
  /\ k_size = 2
  /\ seq = <<"A", "C", "N", "G">>
  /\ kmer_rev_of(seq) = <<"C", "N", "G", "T">>
  /\ \E i \in DOMAIN h : h[i] = 1

\* the summary row of cluster c, or the absent cells a read of a cluster
\* without winner carries
SummaryRowOf(c) ==
  IF c \in SummaryIds
    THEN summary_df[CHOOSE i \in 1..Len(summary_df) :
                      summary_df[i].hdbscan_id = c]
    ELSE [hdbscan_id |-> c, TaxID |-> NoTaxID, name |-> NoName]

\* C25: the table hydrate_clusters returns has one row per row of the
\* cluster table, in its order, with every input column as it was and the
\* TaxID and name of the cluster's summary row (absent for a cluster
\* without winner); the summary has one row per cluster, ascending.
C25_HydrateKeepsRows ==
  vpc = "hydrated" =>
    /\ Len(annotated_reads) = Len(cluster_df)
    /\ \A i \in 1..Len(summary_df) : \A j \in 1..Len(summary_df) :
         i < j => summary_df[i].hdbscan_id < summary_df[j].hdbscan_id
    /\ \A i \in 1..Len(cluster_df) :
         /\ \A c \in DOMAIN cluster_df[i] :
              /\ c \in DOMAIN annotated_reads[i]
              /\ annotated_reads[i][c] = cluster_df[i][c]
         /\ \A c \in SummaryColumns :
              /\ c \in DOMAIN annotated_reads[i]
              /\ annotated_reads[i][c] =
                   SummaryRowOf(cluster_df[i].hdbscan_id)[c]

====
